---- MODULE Spec2Model ----
(***************************************************************************)
(* Model of streamlit_app.py: the OCR processing pipeline (content cache,  *)
(* image optimisation, recognition call, language detection), the stats    *)
(* file, the history directory, the per-session rate limiter and the two   *)
(* batch flows of main().                                                  *)
(***************************************************************************)
EXTENDS Integers, Sequences, FiniteSets, TLC

VARIABLES
    OCR_API_KEY,    \* st.session_state.OCR_API_KEY: "none" or a key
    cache,          \* CACHE_DIR: function cache key -> stored result
    stats_file,     \* STATS_FILE: {} when absent, {snapshot} when present
    history,        \* HISTORY_DIR: function timestamp -> history record
    output_results, \* OUTPUT_RESULTS_DIR: function file stem -> written text
    rate_limit,     \* st.session_state['rate_limit']: sequence of timestamps
    input_watch,    \* INPUT_WATCH_DIR: set of files
    now,            \* the wall clock, in seconds
    pc,             \* position of the session's script run
    remaining,      \* uploaded files the running upload loop has not visited yet
    queue,          \* listed folder files the running folder loop has not visited yet
    batch_settings, \* optimize / use_cache checkboxes of the running batch
    cache_data,     \* @st.cache_data: memoized returns of load_stats, load_history
    callers,        \* per session: the update_stats call in progress, if any
    last,           \* observation: the last operation, its arguments and effects
    tally,          \* observation: update_stats calls made so far, items visited
    admitted,       \* observation: times of all admissions of check_rate_limit
    first_text      \* observation: text of the first default-settings success per content

appVars == <<OCR_API_KEY, cache, stats_file, history, output_results, rate_limit,
             input_watch, now, pc, remaining, queue, batch_settings,
             cache_data, callers>>

obsVars == <<last, tally, admitted, first_text>>

vars == <<appVars, obsVars>>

----------------------------------------------------------------------------
(* Bounds of the model *)

MaxLen == 7        \* longest recognised text explored by the language detector
MaxTime == 125     \* the rate limiter's clock stops advancing here
MaxCalls == 4      \* update_stats calls explored from an absent stats file
MaxItems == 2      \* batch items visited in one run of the application
MaxClock == 1      \* the application's clock stops advancing here
MaxBatch == 2      \* files selected in the uploader at once
MaxFolder == 2     \* files lying in the input_watch folder at once
MaxQuery == 3      \* longest text handed to translate_text
MaxEdit == 1       \* longest text typed over a recognized text
MaxClicks == 1     \* translate buttons pressed in one run of the application
MaxProcess == 2    \* process_image calls explored from an empty cache
MaxUpdates == 3    \* update_stats calls started by the sessions together

----------------------------------------------------------------------------
(* Program constants *)

RATE_LIMIT == 10
WINDOW_SECONDS == 60
MAX_FILE_SIZE == 1048576

----------------------------------------------------------------------------
(* Small helpers *)

Range(s) == {s[i] : i \in DOMAIN s}

----------------------------------------------------------------------------
(* Text and language detection.  A character is represented by its class:  *)
(* a Cyrillic letter of the literal alphabet string, a lower or upper case *)
(* Latin letter, white space, or anything else (digit, punctuation).       *)

Chars == {"cyr", "lat_lower", "lat_upper", "space", "other"}

\* char in 'абв...яАБВ...Я'
IsCyrillic(c) == c = "cyr"

\* char.lower()
Lower(c) == IF c = "lat_upper" THEN "lat_lower" ELSE c

\* 'a' <= char.lower() <= 'z'
IsLatin(c) == Lower(c) = "lat_lower"

\* sum(1 for char in text if char in '...')
cyrillic_chars(text) == Cardinality({i \in DOMAIN text : IsCyrillic(text[i])})

\* sum(1 for char in text if 'a' <= char.lower() <= 'z')
latin_chars(text) == Cardinality({i \in DOMAIN text : IsLatin(text[i])})

\* process_image, lines 310-323: the default, the any() test, the count test
detect_language(text) ==
    LET d0 == "en"
        d1 == IF \E i \in DOMAIN text : IsCyrillic(text[i]) THEN "ru" ELSE d0
        d2 == IF cyrillic_chars(text) > latin_chars(text) THEN "ru" ELSE d1
    IN d2

----------------------------------------------------------------------------
(* Document bytes.  A byte string is represented by what the program reads *)
(* of it: its leading magic bytes and decodability (kind), its length, and *)
(* an identity (id, gen) that tells different contents apart: gen counts   *)
(* the JPEG re-encodings the content went through.                         *)
(*   "pdf"  starts with %PDF                                               *)
(*   "png"  a decodable raster image that is not a JPEG                    *)
(*   "jpg"  starts with FF D8 FF, decodable                                *)
(*   "raw"  anything PIL cannot decode                                     *)
(*   "cut"  an image whose data breaks off: Image.open reads its header,   *)
(*          the conversion or the JPEG encoding raises                     *)

MaxGen == 2        \* re-encoding a JPEG this many times reaches a fixed point

Doc(kind, id, len) == [kind |-> kind, id |-> id, gen |-> 0, len |-> len]

pdfA == Doc("pdf", 1, 500000)
pngB == Doc("png", 2, MAX_FILE_SIZE)
jpgC == Doc("jpg", 3, MAX_FILE_SIZE + 1)
rawD == Doc("raw", 4, 2000)
cutE == Doc("cut", 5, 3000)

\* hashlib.md5(image_data).hexdigest(): the digest of the whole content,
\* identity and length, with the program-irrelevant decodability left out
get_cache_key(image_data) == <<"md5", image_data.id, image_data.gen, image_data.len>>

\* save_to_cache: the file of the key is (over)written
save_to_cache(c, image_data, result) ==
    [k \in DOMAIN c \cup {get_cache_key(image_data)} |->
        IF k = get_cache_key(image_data) THEN result ELSE c[k]]

None == [none |-> TRUE]

get_from_cache_miss(c, image_data) == None

\* get_from_cache: the stored dict, or None when the file does not exist
get_from_cache(c, image_data) ==
    IF get_cache_key(image_data) \in DOMAIN c
    THEN c[get_cache_key(image_data)]
    ELSE None

\* `if cached_result:` -- None and the empty dict are falsy
Truthy(d) == d # None /\ DOMAIN d # {}

check_file_size_10mb(file_data) == file_data.len <= 10 * MAX_FILE_SIZE

\* len(file_data) <= 1 * 1024 * 1024
check_file_size(file_data) == file_data.len <= MAX_FILE_SIZE

\* A file name is the sequence of its parts between the dots.
ALLOWED_EXTENSIONS == {"png", "jpg", "jpeg", "pdf"}

\* str.lower() on the extensions that occur
LowerExt(e) == IF e = "PNG" THEN "png" ELSE e

\* '.' in filename and filename.rsplit('.', 1)[1].lower() in {...}
is_allowed_file(filename) ==
    Len(filename) > 1 /\ LowerExt(filename[Len(filename)]) \in ALLOWED_EXTENSIONS

optimize_image_no_passthrough(image_data) ==
    [image_data EXCEPT !.kind = "jpg",
                       !.gen = IF @ < MaxGen THEN @ + 1 ELSE @]

\* optimize_image: PDF passes through; a decodable image is re-encoded as
\* JPEG (the length of the re-encoded bytes is never read by the program and
\* is kept); on any exception the input comes back unchanged.
optimize_image(image_data) ==
    IF image_data.kind = "pdf" THEN image_data
    ELSE IF image_data.kind \in {"raw", "cut"} THEN image_data
    ELSE [image_data EXCEPT !.kind = "jpg",
                            !.gen = IF @ < MaxGen THEN @ + 1 ELSE @]

----------------------------------------------------------------------------
(* The recognition service.  One answer of the service to one POST.        *)

TextRu == <<"space", "cyr", "cyr", "lat_lower">>
TextEn == <<"lat_upper", "lat_lower", "other">>
Texts == {TextRu, TextEn}

\* a JSON answer: response.status_code and the fields of response.json() the
\* client reads.  ErrorMessage is held as the sequence of its parts, and
\* `"Unauthorized request" in error_msg` finds one of them.
Answer(status, errored, msg, text) ==
    [status |-> status, text |-> "json", IsErroredOnProcessing |-> errored,
     ErrorMessage |-> msg, ParsedText |-> text]

\* an answer without a JSON result: response.status_code and response.text;
\* status 0 stands for requests.post raising (time-out, no connection) with
\* the exception's text
Refusal(status, body) ==
    [status |-> status, text |-> body, IsErroredOnProcessing |-> FALSE,
     ErrorMessage |-> <<>>, ParsedText |-> <<>>]

\* the answers the batch loops are explored with: a parsed text, a processing
\* error reported by the service, a rejected key, a server error
Responses ==
    {Answer(200, FALSE, <<>>, t) : t \in Texts}
    \cup {Answer(200, TRUE, <<"Timed out waiting for results">>, <<>>)}
    \cup {Refusal(st, "body") : st \in {403, 500}}

\* every kind of answer the client tells apart: also a key rejected with 401
\* or in the JSON result, other statuses (2xx ones among them), and a request
\* that raised
AllResponses ==
    Responses
    \cup {Refusal(401, "body"), Refusal(204, ""), Refusal(201, "created"),
          Refusal(429, "too many requests"), Refusal(0, "read timed out")}
    \cup {Answer(200, TRUE, <<"Unauthorized request">>, <<>>),
          Answer(200, TRUE, <<"E216: ", "Unauthorized request", " (key)">>, <<>>)}
    \cup {Answer(200, FALSE, <<>>, <<"space", "other", "space", "space">>)}

\* str.strip(): leading and trailing white space removed
RECURSIVE LStrip(_)
LStrip(t) == IF t # <<>> /\ Head(t) = "space" THEN LStrip(Tail(t)) ELSE t

RECURSIVE RStrip(_)
RStrip(t) ==
    IF t # <<>> /\ t[Len(t)] = "space" THEN RStrip(SubSeq(t, 1, Len(t) - 1)) ELSE t

Strip(t) == RStrip(LStrip(t))

Raised_resets_key(key, calls, msg) ==
    [ok |-> FALSE, text |-> <<>>, error |-> <<"recognition error: ">> \o msg,
     key |-> "none", calls |-> calls]

\* raise Exception(...) caught by `except Exception as e: raise Exception(f"...{e}")`
Raised(key, calls, msg) ==
    [ok |-> FALSE, text |-> <<>>, error |-> <<"recognition error: ">> \o msg,
     key |-> key, calls |-> calls]

ocr_space_recognize_nokeycheck(image_data, key, resp) ==
    IF resp.status = 0 THEN Raised(key, 1, <<resp.text>>)
    ELSE IF resp.status = 401 \/ resp.status = 403
         THEN Raised("none", 1, <<"invalid API key">>)
    ELSE IF resp.status # 200
         THEN Raised(key, 1, <<"OCR.space API error: ", resp.text>>)
    ELSE IF resp.IsErroredOnProcessing
         THEN IF "Unauthorized request" \in Range(resp.ErrorMessage)
              THEN Raised("none", 1, <<"invalid or expired API key">>)
              ELSE Raised(key, 1, resp.ErrorMessage)
    ELSE [ok |-> TRUE, text |-> Strip(resp.ParsedText), error |-> <<>>,
          key |-> key, calls |-> 1]

ocr_space_recognize_any_2xx(image_data, key, resp) ==
    IF key = "none" THEN Raised(key, 0, <<"API key not configured">>)
    ELSE IF resp.status = 0 THEN Raised(key, 1, <<resp.text>>)
    ELSE IF resp.status = 401 \/ resp.status = 403
         THEN Raised("none", 1, <<"invalid API key">>)
    ELSE IF resp.status < 200 \/ resp.status > 299
         THEN Raised(key, 1, <<"OCR.space API error: ", resp.text>>)
    ELSE IF resp.IsErroredOnProcessing
         THEN IF "Unauthorized request" \in Range(resp.ErrorMessage)
              THEN Raised("none", 1, <<"invalid or expired API key">>)
              ELSE Raised(key, 1, resp.ErrorMessage)
    ELSE [ok |-> TRUE, text |-> Strip(resp.ParsedText), error |-> <<>>,
          key |-> key, calls |-> 1]

ocr_space_recognize_keeps_key(image_data, key, resp) ==
    IF key = "none" THEN Raised(key, 0, <<"API key not configured">>)
    ELSE IF resp.status = 0 THEN Raised(key, 1, <<resp.text>>)
    ELSE IF resp.status = 401 \/ resp.status = 403
         THEN Raised(key, 1, <<"invalid API key">>)
    ELSE IF resp.status # 200
         THEN Raised(key, 1, <<"OCR.space API error: ", resp.text>>)
    ELSE IF resp.IsErroredOnProcessing
         THEN IF "Unauthorized request" \in Range(resp.ErrorMessage)
              THEN Raised(key, 1, <<"invalid or expired API key">>)
              ELSE Raised(key, 1, resp.ErrorMessage)
    ELSE [ok |-> TRUE, text |-> Strip(resp.ParsedText), error |-> <<>>,
          key |-> key, calls |-> 1]

\* ocr_space_recognize: key is the session's OCR_API_KEY, resp the answer the
\* service gives if it is asked; calls counts the POSTs made, key is the
\* session's key afterwards.
ocr_space_recognize(image_data, key, resp) ==
    IF key = "none" THEN Raised(key, 0, <<"API key not configured">>)
    ELSE IF resp.status = 0 THEN Raised(key, 1, <<resp.text>>)
    ELSE IF resp.status = 401 \/ resp.status = 403
         THEN Raised("none", 1, <<"invalid API key">>)
    ELSE IF resp.status # 200
         THEN Raised(key, 1, <<"OCR.space API error: ", resp.text>>)
    ELSE IF resp.IsErroredOnProcessing
         THEN IF "Unauthorized request" \in Range(resp.ErrorMessage)
              THEN Raised("none", 1, <<"invalid or expired API key">>)
              ELSE Raised(key, 1, resp.ErrorMessage)
    ELSE [ok |-> TRUE, text |-> Strip(resp.ParsedText), error |-> <<>>,
          key |-> key, calls |-> 1]

SUPPORTED_LANGUAGES ==
    [c \in {"en", "ru"} |-> IF c = "en" THEN "English" ELSE "Russian"]

\* the settings dict: settings.get('use_cache', True), settings.get('optimize', True)
Settings(optimize, use_cache) == [optimize |-> optimize, use_cache |-> use_cache]

DefaultSettings == Settings(TRUE, TRUE)

process_image_caches_errors(image_data, settings, c, key, resp, elapsed) ==
    LET cached_result == IF settings.use_cache THEN get_from_cache(c, image_data) ELSE None
    IN IF settings.use_cache /\ Truthy(cached_result)
       THEN [result |-> cached_result, cache |-> c, key |-> key, calls |-> 0,
             normalized |-> FALSE, written |-> {}, sent |-> None]
       ELSE LET data == IF settings.optimize THEN optimize_image(image_data) ELSE image_data
                rec == ocr_space_recognize(data, key, resp)
                detected_language == detect_language(rec.text)
                result == [text |-> rec.text,
                           processing_time |-> elapsed,
                           language |-> SUPPORTED_LANGUAGES[detected_language],
                           detected_language |-> detected_language]
            IN IF rec.ok
               THEN [result |-> result,
                     cache |-> IF settings.use_cache THEN save_to_cache(c, data, result) ELSE c,
                     key |-> rec.key, calls |-> rec.calls,
                     normalized |-> settings.optimize,
                     written |-> IF settings.use_cache THEN {get_cache_key(data)} ELSE {},
                     sent |-> data]
               ELSE LET failed == [error |-> <<"processing error: ">> \o rec.error]
                    IN [result |-> failed,
                        cache |-> IF settings.use_cache THEN save_to_cache(c, data, failed) ELSE c,
                        key |-> rec.key, calls |-> rec.calls,
                        normalized |-> settings.optimize, written |-> {}, sent |-> data]

\* process_image.  c is the cache directory and key the session's key before
\* the call, resp the service's answer if asked, elapsed the seconds between
\* start_time and the construction of the result.  The value describes the
\* returned dict and the state afterwards: cache, key, the number of POSTs
\* (calls), whether optimize_image ran (normalized), the cache keys written
\* and the bytes handed to ocr_space_recognize (sent).
process_image(image_data, settings, c, key, resp, elapsed) ==
    LET cached_result == IF settings.use_cache THEN get_from_cache(c, image_data) ELSE None
    IN IF settings.use_cache /\ Truthy(cached_result)
       THEN [result |-> cached_result, cache |-> c, key |-> key, calls |-> 0,
             normalized |-> FALSE, written |-> {}, sent |-> None]
       ELSE LET data == IF settings.optimize THEN optimize_image(image_data) ELSE image_data
                rec == ocr_space_recognize(data, key, resp)
                detected_language == detect_language(rec.text)
                result == [text |-> rec.text,
                           processing_time |-> elapsed,
                           language |-> SUPPORTED_LANGUAGES[detected_language],
                           detected_language |-> detected_language]
            IN IF rec.ok
               THEN [result |-> result,
                     cache |-> IF settings.use_cache THEN save_to_cache(c, data, result) ELSE c,
                     key |-> rec.key, calls |-> rec.calls,
                     normalized |-> settings.optimize,
                     written |-> IF settings.use_cache THEN {get_cache_key(data)} ELSE {},
                     sent |-> data]
               ELSE [result |-> [error |-> <<"processing error: ">> \o rec.error],
                     cache |-> c, key |-> rec.key, calls |-> rec.calls,
                     normalized |-> settings.optimize, written |-> {}, sent |-> data]

----------------------------------------------------------------------------
(* The translation service.  One answer of the service to one GET: the     *)
(* status and, for a JSON body, result[0], the list of sentences, each a   *)
(* pair of translated and original chunk.  Status 0 stands for             *)
(* requests.get raising, with the exception's text.                        *)

Sentences(status, sentences) == [status |-> status, text |-> "json", sentences |-> sentences]

NoSentences(status, body) == [status |-> status, text |-> body, sentences |-> <<>>]

TranslationResponses ==
    {Sentences(200, <<<<TextEn, TextRu>>>>),
     Sentences(200, <<<<Strip(TextRu), TextEn>>, <<TextEn, TextEn>>>>),
     NoSentences(500, "server error"), NoSentences(429, "too many requests"),
     NoSentences(204, ""), NoSentences(0, "connection refused")}

\* ''.join([sentence[0] for sentence in result[0]])
RECURSIVE JoinFirst(_)
JoinFirst(sentences) ==
    IF sentences = <<>> THEN <<>> ELSE Head(sentences)[1] \o JoinFirst(Tail(sentences))

\* f"Ошибка перевода: {...}"
TranslationError(what) == <<"translation error: ", what>>

\* translate_text: the parameters sl, tl and q of the GET and the returned
\* string; source_lang and target_lang are the caller's arguments
translate_text(text, source_lang, target_lang, resp) ==
    LET ru == \E i \in DOMAIN text : IsCyrillic(text[i])
        sl == IF ru THEN "ru" ELSE "en"
        tl == IF ru THEN "en" ELSE "ru"
    IN [request |-> [sl |-> sl, tl |-> tl, q |-> text],
        returned |-> IF resp.status = 0 THEN TranslationError(resp.text)
                     ELSE IF resp.status = 200 THEN JoinFirst(resp.sentences)
                     ELSE TranslationError(ToString(resp.status))]

----------------------------------------------------------------------------
(* Stats file, history directory, rate limiter *)

NoStats ==
    [total_processed |-> 0, total_success |-> 0, total_failed |-> 0,
     total_size |-> 0, last_processed |-> -1]

\* the content of STATS_FILE once loaded, or the initial dict
LoadOrInit(sf) == IF sf = {} THEN NoStats ELSE CHOOSE st \in sf : TRUE

update_stats_skips_failed(sf, success, file_size, t) ==
    LET st == LoadOrInit(sf)
    IN {[total_processed |-> st.total_processed + 1,
         total_success |-> st.total_success + (IF success THEN 1 ELSE 0),
         total_failed |-> st.total_failed,
         total_size |-> st.total_size + file_size,
         last_processed |-> t]}

update_stats_always_success(sf, success, file_size, t) ==
    LET st == LoadOrInit(sf)
    IN {[total_processed |-> st.total_processed + 1,
         total_success |-> st.total_success + 1,
         total_failed |-> st.total_failed,
         total_size |-> st.total_size + file_size,
         last_processed |-> t]}

\* update_stats at time t: the new content of STATS_FILE
update_stats(sf, success, file_size, t) ==
    LET st == LoadOrInit(sf)
    IN {[total_processed |-> st.total_processed + 1,
         total_success |-> st.total_success + (IF success THEN 1 ELSE 0),
         total_failed |-> st.total_failed + (IF success THEN 0 ELSE 1),
         total_size |-> st.total_size + file_size,
         last_processed |-> t]}

\* save_to_history at time t: HISTORY_DIR/<timestamp>.json is (over)written;
\* `if translated_text and target_lang:` adds the two translation fields.
\* None and the empty string, which that test does not tell apart, are both
\* the empty text <<>> and the empty code "".
save_to_history(h, image_data, text, language, processing_time, translated_text, target_lang, t) ==
    LET base == [timestamp |-> t, text |-> text, language |-> language,
                 processing_time |-> processing_time]
        history_data ==
            IF translated_text # <<>> /\ target_lang # ""
            THEN [timestamp |-> t, text |-> text, language |-> language,
                  processing_time |-> processing_time,
                  translated_text |-> translated_text, target_language |-> target_lang]
            ELSE base
    IN [ts \in DOMAIN h \cup {t} |-> IF ts = t THEN history_data ELSE h[ts]]

Retained(rl, t) == SelectSeq(rl, LAMBDA x : t - x < WINDOW_SECONDS)

check_rate_limit_counts_denied(rl, t) ==
    IF Len(Retained(rl, t)) >= RATE_LIMIT
    THEN [allowed |-> FALSE, window |-> Append(Retained(rl, t), t)]
    ELSE [allowed |-> TRUE, window |-> Append(Retained(rl, t), t)]

check_rate_limit_off_by_one(rl, t) ==
    IF Len(Retained(rl, t)) > RATE_LIMIT
    THEN [allowed |-> FALSE, window |-> Retained(rl, t)]
    ELSE [allowed |-> TRUE, window |-> Append(Retained(rl, t), t)]

check_rate_limit_keep_old(rl, t) ==
    IF Len(rl) >= RATE_LIMIT
    THEN [allowed |-> FALSE, window |-> rl]
    ELSE [allowed |-> TRUE, window |-> Append(rl, t)]

\* check_rate_limit at time t: the answer and the session's window afterwards
check_rate_limit(rl, t) ==
    IF Len(Retained(rl, t)) >= RATE_LIMIT
    THEN [allowed |-> FALSE, window |-> Retained(rl, t)]
    ELSE [allowed |-> TRUE, window |-> Append(Retained(rl, t), t)]

----------------------------------------------------------------------------
(* The readers of the stats file and the history directory, memoized by    *)
(* @st.cache_data for the life of the server process (no ttl, no clear)    *)

\* load_stats body: the snapshot of the file, or the zero snapshot
load_stats(sf) == LoadOrInit(sf)

\* sorted(HISTORY_DIR.glob('*.json'), reverse=True): newest file name first
RECURSIVE NewestFirst(_)
NewestFirst(stamps) ==
    IF stamps = {} THEN <<>>
    ELSE LET newest == CHOOSE t \in stamps : \A u \in stamps : u <= t
         IN <<newest>> \o NewestFirst(stamps \ {newest})

\* load_history body: the records of the directory, newest first (the
\* image_path / pdf_path annotation of a record is not represented)
load_history(h) ==
    LET order == NewestFirst(DOMAIN h)
    IN [i \in DOMAIN order |-> h[order[i]]]

NoMemo == <<>>

\* a call through the @st.cache_data wrapper: the body runs on the first
\* call only, every later call returns the memoized value
Cached(cd, name, value) == IF name \in DOMAIN cd THEN cd[name] ELSE value

\* the memo after the reads of one full run of main(): load_stats() in the
\* side bar (line 831) and load_history() in the history tab (line 1070)
main_reads(cd, sf, h) ==
    [name \in {"load_stats", "load_history"} |->
        IF name = "load_stats" THEN Cached(cd, name, load_stats(sf))
        ELSE Cached(cd, name, load_history(h))]

\* the sessions of the server process and a session that is not inside
\* update_stats
Sessions == {1, 2}

NotCalling == [pc |-> "idle"]

----------------------------------------------------------------------------
(* The application: files, the session's script runs, the two batch loops  *)

File(name, data) == [name |-> name, done |-> 0, data |-> data]

\* what st.file_uploader(type=['png', 'jpg', 'jpeg', 'pdf']) lets through
UploadFiles ==
    {File(<<"a", "pdf">>, pdfA), File(<<"b", "PNG">>, pngB), File(<<"c", "jpg">>, jpgC)}

\* what may be put into the input_watch folder
FolderFiles ==
    {File(<<"a", "pdf">>, pdfA), File(<<"notes", "txt">>, rawD), File(<<"c", "jpg">>, jpgC)}

Delays == {0, 1}      \* seconds between two calls of update_stats
Elapsed == {0, 1}     \* seconds one process_image call takes; the rest of an
                      \* iteration falls into the same second

Success(result) == "error" \notin DOMAIN result

Idle == [op |-> "init"]

\* observation of one visited batch item
Visit(op, f, outcome, settings, pi, limiter, hit, seen, key, calls) ==
    [op |-> op, file |-> f, outcome |-> outcome, settings |-> settings,
     result |-> pi.result, calls |-> pi.calls, normalized |-> pi.normalized,
     written |-> pi.written, admitted |-> limiter, cached_before |-> hit,
     succeeded_before |-> seen, key_before |-> key, stats_calls |-> calls]

NoCall == [result |-> None, calls |-> 0, normalized |-> FALSE, written |-> {}]

Tally(tl, success, file_size) ==
    [tl EXCEPT !.calls = @ + 1, !.succ = @ + (IF success THEN 1 ELSE 0),
               !.bytes = @ + file_size]

Remember(ft, settings, image_data, result) ==
    IF Success(result) /\ settings = DefaultSettings /\ image_data \notin DOMAIN ft
    THEN [b \in DOMAIN ft \cup {image_data} |-> IF b = image_data THEN result.text ELSE ft[b]]
    ELSE ft

\* the state after the module has been loaded in a fresh working directory
Constructed ==
    /\ cache = <<>>
    /\ stats_file = {}
    /\ history = <<>>
    /\ output_results = <<>>
    /\ rate_limit = <<>>
    /\ input_watch = {}
    /\ now = 0
    /\ pc = "idle"
    /\ remaining = 0
    /\ queue = {}
    /\ batch_settings = DefaultSettings
    \* with a key the page has been rendered once, without it main() returns
    \* before its reads
    /\ cache_data = IF OCR_API_KEY = "none" THEN NoMemo
                    ELSE main_reads(NoMemo, stats_file, history)
    /\ callers = [s \in Sessions |-> NotCalling]
    /\ tally = [calls |-> 0, succ |-> 0, bytes |-> 0, items |-> 0]
    /\ admitted = <<>>
    /\ first_text = <<>>

\* lines 56-63: the key comes from the environment or is None
Init ==
    /\ OCR_API_KEY \in {"none", "key"}
    /\ Constructed
    /\ last = Idle

\* main, lines 761-777: the API key form
ConfigureKey ==
    /\ pc = "idle"
    /\ OCR_API_KEY = "none"
    /\ OCR_API_KEY' = "key"
    /\ last' = [op |-> "configure_key"]
    /\ cache_data' = main_reads(cache_data, stats_file, history)
    /\ UNCHANGED callers
    /\ UNCHANGED <<cache, stats_file, history, output_results, rate_limit, input_watch,
                   now, pc, remaining, queue, batch_settings, tally, admitted, first_text>>

\* a file is put into the input_watch folder
DropFile ==
    /\ pc = "idle"
    /\ Cardinality(input_watch) < MaxFolder
    /\ \E f \in FolderFiles :
        /\ \A g \in input_watch : ~(g.name = f.name /\ g.done = 0)
        /\ input_watch' = input_watch \cup {f}
    /\ last' = [op |-> "drop_file"]
    /\ UNCHANGED <<cache_data, callers>>
    /\ UNCHANGED <<OCR_API_KEY, cache, stats_file, history, output_results, rate_limit,
                   now, pc, remaining, queue, batch_settings, tally, admitted, first_text>>

\* main, lines 896-907: files are selected in the uploader, the checkboxes
\* are set and the button starts the loop over uploaded_files
StartUploadBatch ==
    /\ pc = "idle"
    /\ OCR_API_KEY # "none"
    /\ \E n \in 1..MaxBatch, optimize \in BOOLEAN, use_cache \in BOOLEAN :
        /\ tally.items + n <= MaxItems
        /\ remaining' = n
        /\ batch_settings' = Settings(optimize, use_cache)
    /\ pc' = "upload"
    /\ last' = [op |-> "start_upload"]
    /\ cache_data' = main_reads(cache_data, stats_file, history)
    /\ UNCHANGED callers
    /\ UNCHANGED <<OCR_API_KEY, cache, stats_file, history, output_results, rate_limit,
                   input_watch, now, queue, tally, admitted, first_text>>

\* main, lines 907-945: one iteration of the loop over uploaded_files; f is
\* the file the iteration visits
UploadItem ==
    /\ pc = "upload"
    /\ remaining > 0
    /\ \E f \in UploadFiles, e \in Elapsed, resp \in Responses :
        LET t == now
            rl == check_rate_limit(rate_limit, t)
            hit == batch_settings.use_cache /\ get_cache_key(f.data) \in DOMAIN cache
            seen == f.data \in DOMAIN first_text
            pi == process_image(f.data, batch_settings, cache, OCR_API_KEY, resp, e)
            success == Success(pi.result)
        IN /\ t + e <= MaxClock
           /\ rate_limit' = rl.window
           /\ tally' = IF rl.allowed /\ check_file_size(f.data)
                       THEN [Tally(tally, success, f.data.len) EXCEPT !.items = @ + 1]
                       ELSE [tally EXCEPT !.items = @ + 1]
           /\ IF ~rl.allowed
              THEN \* break
                   /\ remaining' = 0
                   /\ pc' = "idle"
                   /\ now' = t
                   /\ last' = Visit("upload_item", f, "denied", batch_settings, NoCall,
                                    FALSE, hit, seen, OCR_API_KEY, <<>>)
                   /\ UNCHANGED <<OCR_API_KEY, cache, stats_file, history, admitted, first_text>>
              ELSE /\ remaining' = remaining - 1
                   /\ pc' = IF remaining = 1 THEN "idle" ELSE "upload"
                   /\ admitted' = Append(admitted, t)
                   /\ IF ~check_file_size(f.data)
                      THEN \* continue
                           /\ now' = t
                           /\ last' = Visit("upload_item", f, "rejected", batch_settings, NoCall,
                                            TRUE, hit, seen, OCR_API_KEY, <<>>)
                           /\ UNCHANGED <<OCR_API_KEY, cache, stats_file, history, first_text>>
                      ELSE /\ now' = t + e
                           /\ OCR_API_KEY' = pi.key
                           /\ cache' = pi.cache
                           /\ stats_file' = update_stats(stats_file, success, f.data.len, t + e)
                           /\ history' = IF success
                                         THEN save_to_history(history, f.data, pi.result.text,
                                                  pi.result.detected_language, e, <<>>, "", t + e)
                                         ELSE history
                           /\ first_text' = Remember(first_text, batch_settings, f.data, pi.result)
                           /\ last' = Visit("upload_item", f, "processed", batch_settings, pi,
                                            TRUE, hit, seen, OCR_API_KEY,
                                            <<[success |-> success, file_size |-> f.data.len]>>)
    \* the checkboxes are read anew by the run that starts the next batch
    /\ batch_settings' = IF pc' = "idle" THEN DefaultSettings ELSE batch_settings
    /\ UNCHANGED <<cache_data, callers>>
    /\ UNCHANGED <<output_results, input_watch, queue>>

\* main, lines 850-855: the folder button lists the folder and starts the loop
StartFolderBatch ==
    /\ pc = "idle"
    /\ OCR_API_KEY # "none"
    /\ input_watch # {}
    /\ tally.items + Cardinality(input_watch) <= MaxItems
    /\ queue' = input_watch
    /\ pc' = "folder"
    /\ last' = [op |-> "start_folder"]
    /\ cache_data' = main_reads(cache_data, stats_file, history)
    /\ UNCHANGED callers
    /\ UNCHANGED <<OCR_API_KEY, cache, stats_file, history, output_results, rate_limit,
                   input_watch, now, remaining, batch_settings, tally, admitted, first_text>>

\* the file stem under which the folder loop writes its result
Stem(f) == <<f.done, f.name[1]>>

\* shutil.move(file, INPUT_WATCH_DIR / f"_done_{file.name}")
Archive(dir, f) ==
    {g \in dir : g # f /\ ~(g.name = f.name /\ g.done = f.done + 1)}
    \cup {[f EXCEPT !.done = @ + 1]}

\* main, lines 856-889: one iteration of the loop over the listed files, in
\* the order glob() listed them (any order); f is the file visited
FolderItem ==
    /\ pc = "folder"
    /\ queue # {}
    /\ \E f \in queue, e \in Elapsed, resp \in Responses :
        LET t == now
            hit == get_cache_key(f.data) \in DOMAIN cache
            seen == f.data \in DOMAIN first_text
            pi == process_image(f.data, DefaultSettings, cache, OCR_API_KEY, resp, e)
            success == Success(pi.result)
        IN /\ t + e <= MaxClock
           /\ queue' = queue \ {f}
           /\ pc' = IF queue = {f} THEN "idle" ELSE "folder"
           /\ IF ~check_file_size(f.data)
              THEN \* continue
                   /\ now' = t
                   /\ tally' = [tally EXCEPT !.items = @ + 1]
                   /\ last' = Visit("folder_item", f, "rejected", DefaultSettings, NoCall,
                                    FALSE, hit, seen, OCR_API_KEY, <<>>)
                   /\ UNCHANGED <<OCR_API_KEY, cache, stats_file, output_results,
                                  input_watch, first_text>>
              ELSE /\ now' = t + e
                   /\ OCR_API_KEY' = pi.key
                   /\ cache' = pi.cache
                   /\ stats_file' = update_stats(stats_file, success, f.data.len, t + e)
                   /\ tally' = [Tally(tally, success, f.data.len) EXCEPT !.items = @ + 1]
                   /\ output_results' =
                        IF success
                        THEN [n \in DOMAIN output_results \cup {Stem(f)} |->
                                IF n = Stem(f) THEN pi.result.text ELSE output_results[n]]
                        ELSE output_results
                   /\ input_watch' = Archive(input_watch, f)
                   /\ first_text' = Remember(first_text, DefaultSettings, f.data, pi.result)
                   /\ last' = Visit("folder_item", f, "processed", DefaultSettings, pi,
                                    FALSE, hit, seen, OCR_API_KEY,
                                    <<[success |-> success, file_size |-> f.data.len]>>)
    /\ UNCHANGED <<cache_data, callers>>
    /\ UNCHANGED <<history, rate_limit, remaining, batch_settings, admitted>>

Next ==
    \/ ConfigureKey
    \/ DropFile
    \/ StartUploadBatch
    \/ UploadItem
    \/ StartFolderBatch
    \/ FolderItem

Spec == Init /\ [][Next]_vars

----------------------------------------------------------------------------
(* The language detection of process_image applied to any text *)

LangChars == Chars \ {"space"}

AnyText == UNION {[1..n -> LangChars] : n \in 0..MaxLen}

InitLang ==
    /\ OCR_API_KEY = "key"
    /\ Constructed
    /\ \E text \in AnyText : last = [op |-> "text", text |-> text]

\* process_image, lines 310-323
DetectLanguage ==
    /\ last.op = "text"
    /\ last' = [op |-> "detect_language", text |-> last.text,
                detected_language |-> detect_language(last.text)]
    /\ UNCHANGED <<appVars, tally, admitted, first_text>>

NextLang == DetectLanguage

SpecLang == InitLang /\ [][NextLang]_vars

----------------------------------------------------------------------------
(* The rate limiter called at non-decreasing times *)

RateDelays == {0, 30, 59, 60, 61}

InitRate ==
    /\ OCR_API_KEY = "key"
    /\ Constructed
    /\ last = Idle

\* number of admissions in the closed second before t
Recent(adm, t) == Cardinality({i \in DOMAIN adm : t - adm[i] <= 1})

\* check_rate_limit, lines 1269-1276, called d seconds after the last call
CheckRateLimit ==
    /\ \E d \in RateDelays :
        LET t == now + d
            rl == check_rate_limit(rate_limit, t)
        IN /\ t <= MaxTime
           /\ now' = t
           /\ rate_limit' = rl.window
           /\ admitted' = IF rl.allowed THEN Append(admitted, t) ELSE admitted
           /\ last' = [op |-> "check_rate_limit", at |-> t, allowed |-> rl.allowed,
                       before |-> rate_limit, recent |-> Recent(admitted, t)]
    /\ UNCHANGED <<cache_data, callers>>
    /\ UNCHANGED <<OCR_API_KEY, cache, stats_file, history, output_results, input_watch,
                   pc, remaining, queue, batch_settings, tally, first_text>>

NextRate == CheckRateLimit

SpecRate == InitRate /\ [][NextRate]_vars

----------------------------------------------------------------------------
(* update_stats called sequentially, starting without a stats file *)

FileSizes == {2000, 500000, MAX_FILE_SIZE}

InitStats ==
    /\ OCR_API_KEY = "key"
    /\ Constructed
    /\ last = Idle

\* update_stats, lines 221-246, as one uninterrupted call
UpdateStats ==
    /\ tally.calls < MaxCalls
    /\ \E success \in BOOLEAN, file_size \in FileSizes, d \in Delays :
        /\ now' = now + d
        /\ stats_file' = update_stats(stats_file, success, file_size, now + d)
        /\ tally' = Tally(tally, success, file_size)
        /\ last' = [op |-> "update_stats", success |-> success, file_size |-> file_size]
    /\ UNCHANGED <<cache_data, callers>>
    /\ UNCHANGED <<OCR_API_KEY, cache, history, output_results, rate_limit, input_watch,
                   pc, remaining, queue, batch_settings, admitted, first_text>>

NextStats == UpdateStats

SpecStats == InitStats /\ [][NextStats]_vars

----------------------------------------------------------------------------
(* The recognition client called with any document and any answer of the   *)
(* service, and the API key form                                           *)

Documents == {pdfA, pngB, jpgC, rawD}

InitRecognize == Init

Recognize ==
    /\ \E image_data \in Documents, resp \in AllResponses :
          LET rec == ocr_space_recognize(image_data, OCR_API_KEY, resp)
          IN /\ OCR_API_KEY' = rec.key
             /\ last' = [op |-> "ocr_space_recognize", image_data |-> image_data,
                         resp |-> resp, rec |-> rec, key_before |-> OCR_API_KEY,
                         \* observation: an earlier call cleared the key
                         after_refusal |->
                            /\ OCR_API_KEY = "none"
                            /\ last.op = "ocr_space_recognize"
                            /\ (last.key_before # "none" \/ last.after_refusal)]
    /\ UNCHANGED <<cache_data, callers>>
    /\ UNCHANGED <<cache, stats_file, history, output_results, rate_limit, input_watch,
                   now, pc, remaining, queue, batch_settings, tally, admitted, first_text>>

NextRecognize == Recognize \/ ConfigureKey

SpecRecognize == InitRecognize /\ [][NextRecognize]_vars

----------------------------------------------------------------------------
(* The application in a session whose rate-limit window is one admission   *)
(* short of the limit: RATE_LIMIT - 1 files over the size limit have been  *)
(* uploaded in the current second (each was admitted by check_rate_limit   *)
(* and then skipped, which changes nothing but the window).                *)

InitThrottle ==
    /\ OCR_API_KEY = "key"
    /\ cache = <<>>
    /\ stats_file = {}
    /\ history = <<>>
    /\ output_results = <<>>
    /\ rate_limit = [i \in 1..(RATE_LIMIT - 1) |-> 0]
    /\ input_watch = {}
    /\ now = 0
    /\ pc = "idle"
    /\ remaining = 0
    /\ queue = {}
    /\ batch_settings = DefaultSettings
    /\ cache_data = main_reads(NoMemo, stats_file, history)
    /\ callers = [s \in Sessions |-> NotCalling]
    /\ tally = [calls |-> 0, succ |-> 0, bytes |-> 0, items |-> 0]
    /\ admitted = [i \in 1..(RATE_LIMIT - 1) |-> 0]
    /\ first_text = <<>>
    /\ last = Idle

SpecThrottle == InitThrottle /\ [][Next]_vars

----------------------------------------------------------------------------
(* Translation: translate_text applied once to any short text with any     *)
(* hints, and the per-item translation of the batch results page           *)

QueryTexts == UNION {[1..n -> LangChars] : n \in 0..MaxQuery}

TRANSLATION_LANGUAGES == {"en", "ru", "de", "fr", "es", "it", "zh", "ja", "ko", "ar"}

LanguageHints == {"auto", "en", "ru", "de"}

\* st.session_state['last_batch_results']: the entries of the items of the
\* last batch, with the fields the results page reads
BatchResult(file, text) ==
    [success |-> TRUE, file_name |-> file.name, file_data |-> file.data,
     original_text |-> text, detected_language |-> detect_language(text),
     processing_time |-> 0]

last_batch_results ==
    {BatchResult(File(<<"a", "pdf">>, pdfA), TextEn),
     BatchResult(File(<<"b", "PNG">>, pngB), Strip(TextRu))}

\* the arguments of one call and the answer the service will give
InitTranslateText ==
    /\ OCR_API_KEY = "key"
    /\ Constructed
    /\ \E text \in QueryTexts, source_lang \in LanguageHints, target_lang \in LanguageHints,
          resp \in TranslationResponses :
          last = [op |-> "call", text |-> text, source_lang |-> source_lang,
                  target_lang |-> target_lang, resp |-> resp]

TranslateText ==
    /\ last.op = "call"
    /\ last' = [op |-> "translate_text", text |-> last.text,
                source_lang |-> last.source_lang, target_lang |-> last.target_lang,
                resp |-> last.resp,
                tr |-> translate_text(last.text, last.source_lang, last.target_lang, last.resp)]
    /\ UNCHANGED <<appVars, tally, admitted, first_text>>

NextTranslateText == TranslateText

SpecTranslateText == InitTranslateText /\ [][NextTranslateText]_vars

\* what the user may leave in the text area of an item
EditedTexts(res) == {res.original_text} \cup UNION {[1..n -> LangChars] : n \in 0..MaxEdit}

InitTranslate == Init

\* main, lines 962-1010: the translate button of one successful item; the
\* text area holds the recognized text or what the user made of it
TranslateItem ==
    /\ pc = "idle"
    /\ OCR_API_KEY # "none"
    /\ tally.items < MaxClicks
    /\ \E res \in last_batch_results, selected_lang \in TRANSLATION_LANGUAGES,
          resp \in TranslationResponses : \E edited_text \in EditedTexts(res) :
          LET source_lang == IF \E i \in DOMAIN edited_text : IsCyrillic(edited_text[i])
                             THEN "ru" ELSE "en"
              tr == translate_text(edited_text, source_lang, selected_lang, resp)
              translated_text == tr.returned
          IN /\ res.success
             /\ selected_lang # res.detected_language
             /\ history' = save_to_history(history, res.file_data, edited_text,
                                           res.detected_language, res.processing_time,
                                           translated_text, selected_lang, now)
             /\ last' = [op |-> "translate_item", res |-> res, resp |-> resp, tr |-> tr,
                         translated_results |->
                            [translated_text |-> translated_text,
                             target_language |-> selected_lang,
                             edited_text |-> edited_text],
                         saved |-> now,
                         message |-> "st.success"]
    /\ tally' = [tally EXCEPT !.items = @ + 1]
    /\ UNCHANGED <<cache_data, callers>>
    /\ UNCHANGED <<OCR_API_KEY, cache, stats_file, output_results, rate_limit, input_watch,
                   now, pc, remaining, queue, batch_settings, admitted, first_text>>

NextTranslate == TranslateItem \/ ConfigureKey

SpecTranslate == InitTranslate /\ [][NextTranslate]_vars

----------------------------------------------------------------------------
(* process_image called with any document and any settings                 *)

Images == Documents \cup {cutE}

\* the answer for a page on which the service finds no text
BlankPage == Answer(200, FALSE, <<>>, <<>>)

InitProcess == Init

ProcessImage ==
    /\ tally.items < MaxProcess
    /\ \E image_data \in Images, optimize \in BOOLEAN, use_cache \in BOOLEAN,
          resp \in Responses \cup {BlankPage}, e \in Elapsed :
          LET settings == Settings(optimize, use_cache)
              pi == process_image(image_data, settings, cache, OCR_API_KEY, resp, e)
          IN /\ cache' = pi.cache
             /\ OCR_API_KEY' = pi.key
             /\ last' = [op |-> "process_image", image_data |-> image_data,
                         settings |-> settings, resp |-> resp, result |-> pi.result,
                         calls |-> pi.calls, normalized |-> pi.normalized,
                         written |-> pi.written, sent |-> pi.sent,
                         key_before |-> OCR_API_KEY,
                         cached_before |->
                            use_cache /\ get_cache_key(image_data) \in DOMAIN cache]
    /\ tally' = [tally EXCEPT !.items = @ + 1]
    /\ UNCHANGED <<cache_data, callers>>
    /\ UNCHANGED <<stats_file, history, output_results, rate_limit, input_watch,
                   now, pc, remaining, queue, batch_settings, admitted, first_text>>

NextProcess == ProcessImage \/ ConfigureKey

SpecProcess == InitProcess /\ [][NextProcess]_vars

----------------------------------------------------------------------------
(* update_stats called by the sessions of one server process.  Each        *)
(* session's script runs in a thread of its own, so one caller's reading   *)
(* of STATS_FILE (lines 222-232) and its writing (lines 243-244) can have  *)
(* another caller's steps between them.  A write puts a whole snapshot     *)
(* into the file.                                                          *)

InitSessions ==
    /\ OCR_API_KEY = "key"
    /\ Constructed
    /\ last = Idle

Calling == Cardinality({s \in Sessions : callers[s].pc = "loaded"})

\* update_stats, lines 222-232: the caller has its stats dict; loaded is the
\* content of STATS_FILE it was read from
BeginUpdate(s) ==
    /\ callers[s].pc = "idle"
    /\ tally.calls + Calling < MaxUpdates
    /\ \E success \in BOOLEAN, file_size \in FileSizes :
          callers' = [callers EXCEPT ![s] = [pc |-> "loaded", loaded |-> stats_file,
                                             success |-> success,
                                             file_size |-> file_size]]
    /\ last' = [op |-> "update_stats_load", session |-> s]
    /\ UNCHANGED <<OCR_API_KEY, cache, stats_file, history, output_results, rate_limit,
                   input_watch, now, pc, remaining, queue, batch_settings, cache_data,
                   tally, admitted, first_text>>

FinishUpdate_rereads(s) ==
    /\ callers[s].pc = "loaded"
    /\ \E d \in Delays :
        /\ now' = now + d
        /\ stats_file' = update_stats(stats_file, callers[s].success,
                                      callers[s].file_size, now + d)
    /\ tally' = Tally(tally, callers[s].success, callers[s].file_size)
    /\ callers' = [callers EXCEPT ![s] = NotCalling]
    /\ last' = [op |-> "update_stats_store", session |-> s,
                stale |-> callers[s].loaded # stats_file]
    /\ UNCHANGED <<OCR_API_KEY, cache, history, output_results, rate_limit, input_watch,
                   pc, remaining, queue, batch_settings, cache_data, admitted, first_text>>

\* update_stats, lines 234-246: the counters of the caller's dict are raised
\* and the dict is written over STATS_FILE
FinishUpdate(s) ==
    /\ callers[s].pc = "loaded"
    /\ \E d \in Delays :
        /\ now' = now + d
        /\ stats_file' = update_stats(callers[s].loaded, callers[s].success,
                                      callers[s].file_size, now + d)
    /\ tally' = Tally(tally, callers[s].success, callers[s].file_size)
    /\ callers' = [callers EXCEPT ![s] = NotCalling]
    /\ last' = [op |-> "update_stats_store", session |-> s,
                stale |-> callers[s].loaded # stats_file]
    /\ UNCHANGED <<OCR_API_KEY, cache, history, output_results, rate_limit, input_watch,
                   pc, remaining, queue, batch_settings, cache_data, admitted, first_text>>

NextSessions == \E s \in Sessions : BeginUpdate(s) \/ FinishUpdate(s)

SpecSessions == InitSessions /\ [][NextSessions]_vars

----------------------------------------------------------------------------
(* The pages of the application looked at between uploaded-files batches   *)

\* a run of main() in which no button is pressed: the side bar shows what
\* load_stats() returns, the history tab what load_history() returns
ViewPage ==
    /\ pc = "idle"
    /\ OCR_API_KEY # "none"
    /\ cache_data' = main_reads(cache_data, stats_file, history)
    /\ last' = [op |-> "view_page", stats |-> cache_data'["load_stats"],
                history |-> cache_data'["load_history"]]
    /\ UNCHANGED <<OCR_API_KEY, cache, stats_file, history, output_results, rate_limit,
                   input_watch, now, pc, remaining, queue, batch_settings, callers,
                   tally, admitted, first_text>>

NextReads == ConfigureKey \/ StartUploadBatch \/ UploadItem \/ ViewPage

SpecReads == Init /\ [][NextReads]_vars

----------------------------------------------------------------------------
(* Properties *)

IsItem(l) == l.op \in {"upload_item", "folder_item"}

Processed(l) == IsItem(l) /\ l.outcome = "processed"

Snapshot == LoadOrInit(stats_file)

\* C1: once process_image(B) has succeeded with caching and optimisation at
\* their defaults, a second process_image(B) with the defaults returns the
\* same text and makes no call to the recognition service.
C1_SecondCallServedFromCache ==
    (Processed(last) /\ last.settings = DefaultSettings /\ last.succeeded_before)
        => /\ last.calls = 0
           /\ Success(last.result)
           /\ last.result.text = first_text[last.file.data]

\* C2: when the cache lookup for the input bytes hits, process_image returns
\* the stored entry, does not normalise, makes no recognition call and writes
\* nothing to the cache.
C2_Step ==
    (/\ Processed(last')
     /\ last'.settings.use_cache
     /\ get_cache_key(last'.file.data) \in DOMAIN cache)
        => /\ last'.result = cache[get_cache_key(last'.file.data)]
           /\ ~last'.normalized
           /\ last'.calls = 0
           /\ cache' = cache

C2_CacheHitShortCircuits == [][C2_Step]_vars

C2_Witness ==
    /\ Processed(last)
    /\ last.cached_before
    /\ last.calls = 0
    /\ last.result = cache[get_cache_key(last.file.data)]

\* C3: the detected language is 'ru' exactly when the text has more Cyrillic
\* letters than Latin letters, and 'en' otherwise.
C3_RussianIffCyrillicMajority ==
    last.op = "detect_language"
        => /\ last.detected_language \in {"ru", "en"}
           /\ last.detected_language = "ru"
                <=> cyrillic_chars(last.text) > latin_chars(last.text)

\* C4: at non-decreasing call times the retained window never holds more than
\* RATE_LIMIT timestamps, no more than RATE_LIMIT calls were admitted within
\* any trailing 60-second interval, and a call that follows RATE_LIMIT
\* admissions within one second is denied.
AdmittedWithin(t) ==
    Cardinality({i \in DOMAIN admitted : t - admitted[i] >= 0 /\ t - admitted[i] < WINDOW_SECONDS})

C4_WindowBounded ==
    /\ Len(rate_limit) <= RATE_LIMIT
    /\ \A t \in Range(admitted) \cup {now} : AdmittedWithin(t) <= RATE_LIMIT
    /\ (last.op = "check_rate_limit" /\ last.recent >= RATE_LIMIT) => ~last.allowed

C4_Witness ==
    /\ last.op = "check_rate_limit"
    /\ last.recent = RATE_LIMIT
    /\ ~last.allowed
    /\ Len(rate_limit) = RATE_LIMIT

\* C5: once at least 60 seconds have passed since the oldest admission still
\* retained, the next check_rate_limit call is admitted.
C5_DenialNotPermanent ==
    (/\ last.op = "check_rate_limit"
     /\ last.before # <<>>
     /\ last.at - last.before[1] >= WINDOW_SECONDS)
        => /\ last.allowed
           /\ rate_limit[Len(rate_limit)] = last.at

C5_Witness ==
    /\ last.op = "check_rate_limit"
    /\ Len(last.before) = RATE_LIMIT
    /\ last.at - last.before[1] = WINDOW_SECONDS + 1
    /\ last.allowed

\* C6: after N sequential update_stats calls, S of them with success = true,
\* starting from no stats file, the file holds total_processed = N,
\* total_success = S, total_failed = N - S and total_size = the sum of the
\* sizes passed.
C6_StatsCountCalls ==
    /\ stats_file = {} <=> tally.calls = 0
    /\ tally.calls > 0
        => /\ Snapshot.total_processed = tally.calls
           /\ Snapshot.total_success = tally.succ
           /\ Snapshot.total_failed = tally.calls - tally.succ
           /\ Snapshot.total_size = tally.bytes

C6_Witness ==
    /\ tally.calls = 3
    /\ tally.succ = 1
    /\ Snapshot.total_failed = 2
    /\ Snapshot.total_size = tally.bytes

\* C7: every processing attempt of a batch is followed by exactly one
\* update_stats call whose success flag is the outcome of the attempt: cache
\* hit, fresh recognition or failure.
C7_Step ==
    IsItem(last') =>
        IF last'.outcome = "processed"
        THEN /\ last'.stats_calls = <<[success |-> Success(last'.result),
                                       file_size |-> last'.file.data.len]>>
             /\ stats_file' # {}
             /\ LoadOrInit(stats_file').total_processed = Snapshot.total_processed + 1
             /\ LoadOrInit(stats_file').total_success =
                    Snapshot.total_success + (IF Success(last'.result) THEN 1 ELSE 0)
             /\ LoadOrInit(stats_file').total_failed =
                    Snapshot.total_failed + (IF Success(last'.result) THEN 0 ELSE 1)
        ELSE /\ last'.stats_calls = <<>>
             /\ stats_file' = stats_file

C7_EveryAttemptRecordedOnce == [][C7_Step]_vars

C7_Witness ==
    /\ Processed(last)
    /\ ~Success(last.result)
    /\ Snapshot.total_failed >= 1
    /\ Snapshot.total_success >= 1

\* C8: an item is rejected for its size exactly when it is longer than 1 MiB,
\* and no item that is longer than 1 MiB or whose file name extension is
\* outside {png, jpg, jpeg, pdf} is passed to process_image, in any flow.
C8_OnlyValidItemsProcessed ==
    /\ (IsItem(last) /\ last.outcome = "rejected") => last.file.data.len > MAX_FILE_SIZE
    /\ Processed(last)
        => /\ last.file.data.len <= MAX_FILE_SIZE
           /\ is_allowed_file(last.file.name)

\* C9: an item rejected for exceeding the size limit causes no recognition
\* call and leaves the cache, the history and the stats file unchanged.
C9_Step ==
    (IsItem(last') /\ last'.file.data.len > MAX_FILE_SIZE)
        => /\ last'.calls = 0
           /\ cache' = cache
           /\ history' = history
           /\ stats_file' = stats_file

C9_OversizeItemHasNoEffect == [][C9_Step]_vars

C9_Witness ==
    /\ IsItem(last)
    /\ last.outcome = "rejected"
    /\ last.file.data.len > MAX_FILE_SIZE
    /\ stats_file # {}
    /\ DOMAIN cache # {}

\* C10: without an API key in the session ocr_space_recognize fails before
\* any network call, and process_image hands the failure to its caller as an
\* error result.
C10_Step ==
    (/\ Processed(last')
     /\ OCR_API_KEY = "none"
     /\ ~(last'.settings.use_cache /\ get_cache_key(last'.file.data) \in DOMAIN cache))
        => /\ last'.calls = 0
           /\ "error" \in DOMAIN last'.result
           /\ cache' = cache

C10_NoKeyFailsBeforeNetwork == [][C10_Step]_vars

C10_Witness ==
    /\ Processed(last)
    /\ last.key_before = "none"
    /\ ~last.cached_before
    /\ last.calls = 0
    /\ "error" \in DOMAIN last.result

\* the service refuses the key: status 401 or 403, or a processing error whose
\* message contains "Unauthorized request"
KeyRefused(resp) ==
    \/ resp.status \in {401, 403}
    \/ /\ resp.status = 200
       /\ resp.IsErroredOnProcessing
       /\ \E i \in DOMAIN resp.ErrorMessage : resp.ErrorMessage[i] = "Unauthorized request"

AuthMessages == {"invalid API key", "invalid or expired API key"}

\* C11: a recognition call whose key the service refuses fails with an
\* authentication error and clears the session's key; while the key is
\* cleared every recognition call fails without a request to the service and
\* leaves the key cleared, and only the API key form sets a key again.
C11_Step ==
    /\ (last'.op = "ocr_space_recognize" /\ OCR_API_KEY # "none" /\ KeyRefused(last'.resp))
          => /\ ~last'.rec.ok
             /\ last'.rec.error[Len(last'.rec.error)] \in AuthMessages
             /\ OCR_API_KEY' = "none"
    /\ (last'.op = "ocr_space_recognize" /\ OCR_API_KEY = "none")
          => /\ ~last'.rec.ok
             /\ last'.rec.calls = 0
             /\ OCR_API_KEY' = "none"
    /\ (OCR_API_KEY = "none" /\ OCR_API_KEY' # "none") => last'.op = "configure_key"

C11_AuthFailureClearsKey == [][C11_Step]_vars

\* a call without a request, made after the service refused the key
C11_Witness ==
    /\ last.op = "ocr_space_recognize"
    /\ last.after_refusal
    /\ last.rec.calls = 0
    /\ ~last.rec.ok
    /\ OCR_API_KEY = "none"

\* the returned dict reports an authentication error of the recognition call
AuthFailed(result) ==
    /\ "error" \in DOMAIN result
    /\ result.error[Len(result.error)] \in AuthMessages

\* C12: in a batch, once an item has failed with an authentication error the
\* rest of the batch is given up: the step after it processes no item (no
\* cache lookup, no recognition attempt, no stats record).
C12_Step ==
    (Processed(last) /\ AuthFailed(last.result) /\ pc # "idle") => ~Processed(last')

C12_AuthErrorAbortsBatch == [][C12_Step]_vars

\* the admissions of the session's window that are less than 60 s old
InWindow == Cardinality({i \in DOMAIN rate_limit : now - rate_limit[i] < WINDOW_SECONDS})

\* C13: in the uploaded-files batch an item that finds the window full stops
\* the batch: the item is not processed (no recognition call; stats, cache,
\* history and key unchanged), the loop is over so that no later item is
\* visited, and what earlier items left in stats, cache and history stays.
C13_Step ==
    (pc = "upload" /\ InWindow >= RATE_LIMIT)
      => /\ last'.op = "upload_item"
         /\ ~Processed(last')
         /\ last'.calls = 0
         /\ pc' = "idle"
         /\ remaining' = 0
         /\ UNCHANGED <<OCR_API_KEY, cache, stats_file, history, output_results>>

NonAuthFailure(result) == "error" \in DOMAIN result /\ ~AuthFailed(result)

\* C14 as stated: when an item of a batch has failed with a processing or
\* transient error, the next item of the batch is processed as it would be
\* without the failed item; without it the limiter, which admitted the
\* failed item, would admit the next one, so the next item is not denied.
C14_LaterItemsUnaffected ==
    [][(Processed(last) /\ NonAuthFailure(last.result) /\ pc # "idle")
         => last'.outcome # "denied"]_vars

\* the loop after the visit of an item: over with the last item, else going on
LoopGoesOn ==
    \/ /\ pc = "upload"
       /\ remaining' = remaining - 1
       /\ pc' = IF remaining' > 0 THEN "upload" ELSE "idle"
    \/ /\ pc = "folder"
       /\ queue' = queue \ {last'.file}
       /\ pc' = IF queue' # {} THEN "folder" ELSE "idle"

\* C14 (amended): an item whose recognition fails with a processing or
\* transient error leaves the cache, the key, the history and the result
\* files as they were and does not end the loop; the item after it is
\* visited, and it is processed exactly if it is within the size limit and,
\* in the uploaded-files batch, the rate limiter (which has counted the
\* failed item) admits it.
C14_Step ==
    /\ (Processed(last') /\ NonAuthFailure(last'.result))
          => /\ UNCHANGED <<OCR_API_KEY, cache, history, output_results>>
             /\ last'.written = {}
             /\ LoopGoesOn
    /\ (Processed(last) /\ NonAuthFailure(last.result) /\ pc # "idle")
          => /\ IsItem(last')
             /\ Processed(last') <=>
                   /\ last'.file.data.len <= MAX_FILE_SIZE
                   /\ pc = "upload" => InWindow < RATE_LIMIT

C14_FailureIsolated == [][C14_Step]_vars

\* an item is recognized after an earlier item of the session has failed
\* while the key stayed configured
C14_Witness ==
    /\ Processed(last)
    /\ Success(last.result)
    /\ Snapshot.total_failed >= 1
    /\ Snapshot.total_success >= 1
    /\ tally.items >= 2
    /\ OCR_API_KEY # "none"

\* C15: in both batch flows an item is passed to process_image only after
\* check_rate_limit has been called for it and has returned True.
C15_ProcessedOnlyIfAdmitted ==
    Processed(last) => last.admitted

\* C16: every item of an uploaded-files batch that is recognized (from the
\* service or from the cache) adds one record to the history, so that k
\* successes add k records however close in time the items are.
C16_OneRecordPerSuccess ==
    [][(last'.op = "upload_item" /\ Processed(last') /\ Success(last'.result))
         => Cardinality(DOMAIN history') = Cardinality(DOMAIN history) + 1]_vars

\* C17: the direction of translate_text depends on the text alone: Russian
\* to English when the text has more Cyrillic than Latin letters, English to
\* Russian otherwise, whatever source_lang and target_lang the caller gives.
C17_DirectionByDominance ==
    last.op = "translate_text"
      => LET ru == cyrillic_chars(last.text) > latin_chars(last.text)
         IN /\ last.tr.request.sl = (IF ru THEN "ru" ELSE "en")
            /\ last.tr.request.tl = (IF ru THEN "en" ELSE "ru")

\* the string begins with the error marker of translate_text
TranslationFailed(returned) == returned # <<>> /\ Head(returned) = "translation error: "

\* C18: when translate_text has returned a string that begins with the error
\* marker, the caller does not store it as translated_text of a history
\* record and does not present it as a successful translation.
C18_FailedTranslationNotStored ==
    /\ \A ts \in DOMAIN history :
          "translated_text" \in DOMAIN history[ts]
            => ~TranslationFailed(history[ts].translated_text)
    /\ (last.op = "translate_item" /\ TranslationFailed(last.tr.returned))
          => last.message # "st.success"

\* a recognition call that got an answer from the service
Answered(l) == l.op = "ocr_space_recognize" /\ l.key_before # "none" /\ l.resp.status # 0

FailsWith(rec, msg) == ~rec.ok /\ rec.error = <<"recognition error: ">> \o msg

C20_OptimizeNeverFatal ==
    (last.op = "process_image" /\ ~last.cached_before)
      => /\ last.sent # None
         /\ (last.settings.optimize /\ last.image_data.kind \in {"pdf", "raw", "cut"})
               => last.sent = last.image_data
         /\ ~last.settings.optimize => last.sent = last.image_data
         /\ last.key_before # "none" => last.calls = 1
         /\ (last.key_before # "none" /\ last.resp.status = 200
                /\ ~last.resp.IsErroredOnProcessing) => Success(last.result)

\* an image that cannot be decoded went through optimisation and was
\* recognized from its original bytes
C20_Witness ==
    /\ last.op = "process_image"
    /\ last.settings.optimize
    /\ last.normalized
    /\ last.image_data.kind \in {"raw", "cut"}
    /\ last.sent = last.image_data
    /\ last.calls = 1
    /\ Success(last.result)

\* C21: a cache entry is read-only once it exists: no process_image call with
\* caching enabled changes the value stored under a key that is already in
\* the cache directory.
C21_CacheEntriesReadOnly ==
    [][(last'.op = "process_image" /\ last'.settings.use_cache)
         => \A k \in DOMAIN cache : k \in DOMAIN cache' /\ cache'[k] = cache[k]]_vars

\* C22: a check_rate_limit call that ends in denial leaves the session's
\* window of admission timestamps exactly as it was: the pruning that
\* precedes the test removes nothing on such a call.
C22_Step ==
    (last'.op = "check_rate_limit" /\ ~last'.allowed) => rate_limit' = rate_limit

C22_DenialLeavesWindow == [][C22_Step]_vars

\* a denial on a window whose admissions were made at different times
C22_Witness ==
    /\ last.op = "check_rate_limit"
    /\ ~last.allowed
    /\ last.before = rate_limit
    /\ Len(rate_limit) = RATE_LIMIT
    /\ rate_limit[1] < rate_limit[RATE_LIMIT]
    /\ rate_limit[1] < last.at

\* C23: update_stats is not atomic: a caller that writes after the file has
\* changed since it read it loses the other caller's update, so that
\* total_processed is then smaller than the number of completed calls; a
\* snapshot never counts more calls than have completed.
C23_Step ==
    /\ (\E s \in Sessions : /\ callers[s].pc = "loaded"
                             /\ callers'[s].pc = "idle"
                             /\ callers[s].loaded # stats_file)
          => LoadOrInit(stats_file').total_processed < tally'.calls
    /\ LoadOrInit(stats_file').total_processed <= tally'.calls

C23_LostUpdate == [][C23_Step]_vars

\* two sessions have completed one call each and the file counts one
C23_Witness ==
    /\ \A s \in Sessions : callers[s].pc = "idle"
    /\ tally.calls = 2
    /\ Snapshot.total_processed = 1
    /\ last.op = "update_stats_store"
    /\ last.stale

\* C24: whenever STATS_FILE exists, its snapshot has total_processed =
\* total_success + total_failed, also when the reads and writes of several
\* update_stats callers interleave.
C24_ProcessedIsSuccessPlusFailed ==
    stats_file # {}
      => Snapshot.total_processed = Snapshot.total_success + Snapshot.total_failed

\* a snapshot written by a caller whose read was out of date, counting
\* successes and failures
C24_Witness ==
    /\ last.op = "update_stats_store"
    /\ last.stale
    /\ Snapshot.total_success >= 1
    /\ Snapshot.total_failed >= 1
    /\ Snapshot.total_processed < tally.calls

\* C25: what a page shows is the persisted state: load_stats returns the
\* snapshot of the stats file as update_stats left it, and load_history
\* returns a list that holds every record save_to_history has written, also
\* when the same read was made earlier in the running application.
C25_ReadsReflectPersistedState ==
    last.op = "view_page"
      => /\ last.stats = load_stats(stats_file)
         /\ \A ts \in DOMAIN history :
               \E i \in DOMAIN last.history : last.history[i] = history[ts]


\* C26: a file that a run of the input_watch folder batch has processed and
\* archived is not processed again by a later run of the folder batch: every
\* file the loop processes (process_image called, a stats record written) is
\* one that no earlier run has archived.
C26_ArchivedNotProcessedAgain ==
    (last.op = "folder_item" /\ last.outcome = "processed")
      => last.file.done = 0


\* C27: the cache holds only successful results: in every reachable state no
\* cache entry carries an 'error' field, and every entry has a 'text' field
\* and a 'detected_language' that is 'en' or 'ru'.
C27_CacheHoldsOnlySuccesses ==
    \A k \in DOMAIN cache :
        /\ "error" \notin DOMAIN cache[k]
        /\ "text" \in DOMAIN cache[k]
        /\ "detected_language" \in DOMAIN cache[k]
        /\ cache[k].detected_language \in {"en", "ru"}

\* a call with caching enabled has failed on bytes that are not in the cache,
\* while the cache holds the entry of an earlier success
C27_Witness ==
    /\ last.op = "process_image"
    /\ last.settings.use_cache
    /\ ~last.cached_before
    /\ "error" \in DOMAIN last.result
    /\ last.calls = 1
    /\ cache # <<>>
    /\ get_cache_key(last.sent) \notin DOMAIN cache

============================================================================
